---- MODULE Spec2Model ----
(***************************************************************************)
(* Model of src/main.py: a FastAPI application that lists the files under  *)
(* a root directory (GET /files) and serves one of them                    *)
(* (GET /files/{file_path:path}).                                          *)
(*                                                                         *)
(* Strings are sequences of one-character strings, a path is a sequence of *)
(* names, and the filesystem is a map from absolute paths to nodes, so     *)
(* that str(), startswith(), replace() and resolve() are computed the way  *)
(* pathlib computes them on a POSIX platform.                              *)
(***************************************************************************)
EXTENDS Integers, Sequences, FiniteSets, TLC

(* ------------------------------ bounds -------------------------------- *)

\* number of requests the server handles (concurrently) in one behaviour
MaxReq == 2

\* number of changes an outside party makes to the filesystem
MaxEnv == 1

Requests == 1..MaxReq

(* ------------------------------ names --------------------------------- *)

NData     == <<"d","a","t","a">>
NFoo      == <<"f","o","o">>
NFoobar   == <<"f","o","o","b","a","r">>
NOther    == <<"o","t","h","e","r">>
NArquivos == <<"a","r","q","u","i","v","o","s">>
NATxt     == <<"a",".","t","x","t">>
NSub      == <<"s","u","b">>
NBTxt     == <<"b",".","t","x","t">>
NDir      == <<"d","i","r">>
NNTxt     == <<"n",".","t","x","t">>
NBack     == <<"a","\\","b">>
NA        == <<"a">>
NB        == <<"b">>
NCTxt     == <<"c",".","t","x","t">>
NLink     == <<"l","i","n","k">>
NDlink    == <<"d","l","i","n","k">>
NDang     == <<"d","a","n","g">>
NFifo     == <<"f","i","f","o">>
NSecret   == <<"s",".","t","x","t">>
NX        == <<"x">>
NNope     == <<"n","o","p","e">>
NGone     == <<"g","o","n","e">>
DotDot    == <<".",".">>
Dot       == <<".">>

\* longest file name the platform's stat() accepts (NAME_MAX on Linux)
NAME_MAX == 255

LongName == [i \in 1..(NAME_MAX + 1) |-> "x"]

(* ------------------------------ paths --------------------------------- *)

PData     == <<NData>>
PFoo      == <<NData, NFoo>>
PATxt     == <<NData, NFoo, NATxt>>
PSub      == <<NData, NFoo, NSub>>
PBTxt     == <<NData, NFoo, NSub, NBTxt>>
PDir      == <<NData, NFoo, NSub, NDir>>
PNTxt     == <<NData, NFoo, NSub, NDir, NNTxt>>
PBack     == <<NData, NFoo, NBack>>
PCTxt     == <<NData, NFoo, NBack, NCTxt>>
PLink     == <<NData, NFoo, NLink>>
PDlink    == <<NData, NFoo, NDlink>>
PDang     == <<NData, NFoo, NDang>>
PFifo     == <<NData, NFoo, NFifo>>
PFoobar   == <<NData, NFoobar>>
PSecret   == <<NData, NFoobar, NSecret>>
POther    == <<NData, NOther>>
PX        == <<NData, NOther, NX>>
PGone     == <<NData, NGone>>
PArquivos == <<NData, NArquivos>>

\* every path at which the modelled filesystem can hold a node, in the
\* order in which a directory scan reports them
UniverseSeq ==
  << PData, PFoo, PDang, PDlink, PFifo, PLink, PSub, PBack, PATxt,
     PBTxt, PDir, PNTxt, PCTxt, PFoobar, PSecret, POther, PX, PArquivos >>

Universe == { UniverseSeq[i] : i \in 1..Len(UniverseSeq) }

Absent == [kind |-> "absent", target |-> <<>>, size |-> 0]

DirNode == [kind |-> "dir", target |-> <<>>, size |-> 0]

FileNode(n) == [kind |-> "file", target |-> <<>>, size |-> n]

LinkNode(t) == [kind |-> "symlink", target |-> t, size |-> 0]

\* what each path of the universe holds when it is present
FullNode(p) ==
  CASE p = PATxt   -> FileNode(1)
    [] p = PBTxt   -> FileNode(2)
    [] p = PNTxt   -> FileNode(3)
    [] p = PCTxt   -> FileNode(4)
    [] p = PSecret -> FileNode(5)
    [] p = PX      -> FileNode(6)
    [] p = PArquivos -> FileNode(7)
    [] p = PLink   -> LinkNode(PX)
    [] p = PDlink  -> LinkNode(PSub)
    [] p = PDang   -> LinkNode(PGone)
    [] p = PFifo   -> [kind |-> "special", target |-> <<>>, size |-> 0]
    [] OTHER       -> DirNode

Outside == { PData, PFoobar, PSecret, POther, PX }

UnderFoo == { PFoo, PATxt, PSub, PBTxt, PDir, PNTxt, PBack, PCTxt,
              PLink, PDlink, PDang, PFifo }

\* the directory trees the server may be started on
FsConfigs ==
  { Outside \cup UnderFoo,
    Outside \cup { PFoo, PATxt, PLink },
    Outside,
    Outside \cup { PArquivos } }

MkFs(present) == [p \in Universe |-> IF p \in present THEN FullNode(p) ELSE Absent]

(* --------------------------- string helpers --------------------------- *)

Slash == "/"

Last(s) == s[Len(s)]

Front(s) == SubSeq(s, 1, Len(s) - 1)

\* str.startswith
StartsWith(s, t) == Len(t) <= Len(s) /\ SubSeq(s, 1, Len(t)) = t

\* str.replace('\\', '/')
ReplaceBackslash(s) == [i \in 1..Len(s) |-> IF s[i] = "\\" THEN Slash ELSE s[i]]

RECURSIVE JoinSlash(_)
\* the names of a relative path joined by "/"
JoinSlash(segs) ==
  IF segs = <<>> THEN <<>>
  ELSE IF Len(segs) = 1 THEN segs[1]
  ELSE segs[1] \o <<Slash>> \o JoinSlash(Tail(segs))

\* str() of an absolute PosixPath
PathStr(p) == IF p = <<>> THEN <<Slash>> ELSE <<Slash>> \o JoinSlash(p)

\* str() of a relative PosixPath: "." when it has no segment
RelStr(segs) == IF segs = <<>> THEN Dot ELSE JoinSlash(segs)

\* the position at which the segment starting at position i ends
SegmentEnd(s, i) ==
  CHOOSE j \in i..Len(s) :
    /\ (j = Len(s) \/ s[j + 1] = Slash)
    /\ \A k \in i..j : s[k] # Slash

\* the segments pathlib parses out of a string: the pieces between the
\* slashes, where empty and "." pieces are dropped and ".." is kept
Segments(s) ==
  LET starts == SelectSeq([i \in 1..Len(s) |-> i],
                          LAMBDA i : s[i] # Slash /\ (i = 1 \/ s[i - 1] = Slash))
      pieces == [k \in 1..Len(starts) |-> SubSeq(s, starts[k], SegmentEnd(s, starts[k]))]
  IN SelectSeq(pieces, LAMBDA x : x # Dot)

IsAbsolute(s) == Len(s) > 0 /\ s[1] = Slash

\* base / s : an absolute right operand replaces the base
JoinPath(base, s) == IF IsAbsolute(s) THEN Segments(s) ELSE base \o Segments(s)

(* ------------------------- filesystem queries ------------------------- *)

Node(f, p) == IF p \in Universe THEN f[p] ELSE Absent

Kind(f, p) == Node(f, p).kind

RECURSIVE ResolveFrom(_, _, _)
\* os.path.realpath, non strict: ".." pops a segment (the root is its own
\* parent), a symbolic link is replaced by its target, a missing component
\* is kept as it is.  The modelled trees hold no symbolic-link cycle.
ResolveFrom(f, cur, rest) ==
  IF rest = <<>> THEN cur
  ELSE LET seg == Head(rest)
           new == Append(cur, seg)
       IN IF seg = DotDot
          THEN ResolveFrom(f, IF cur = <<>> THEN cur ELSE Front(cur), Tail(rest))
          ELSE IF Kind(f, new) = "symlink"
               THEN ResolveFrom(f, <<>>, Node(f, new).target \o Tail(rest))
               ELSE ResolveFrom(f, new, Tail(rest))

\* Path.resolve()
Resolve(f, segs) == ResolveFrom(f, <<>>, segs)

\* Path.exists(), Path.is_file(), Path.is_dir(): all follow symbolic links
Exists(f, p) == Kind(f, Resolve(f, p)) # "absent"

IsFile(f, p) == Kind(f, Resolve(f, p)) = "file"

IsDir(f, p) == Kind(f, Resolve(f, p)) = "dir"

\* a path one of whose names is longer than the platform accepts
NameTooLong(p) == \E i \in 1..Len(p) : Len(p[i]) > NAME_MAX

\* p is d itself or below it, compared segment by segment
SegInside(p, d) == Len(p) >= Len(d) /\ SubSeq(p, 1, Len(d)) = d

\* the entries a scan of directory d reports
Children(f, d) ==
  SelectSeq(UniverseSeq,
            LAMBDA p : Len(p) = Len(d) + 1 /\ Front(p) = d /\ Kind(f, p) # "absent")


\* a walk that does not descend (glob in place of rglob)
SubdirsToVisitNone(f, d) == <<>>

\* the directories below d that the recursive walk descends into: real
\* directories only, a symbolic link to a directory is reported but not
\* followed
SubdirsToVisit(f, d) == SelectSeq(Children(f, d), LAMBDA p : Kind(f, p) = "dir")

(* ------------------------------ records ------------------------------- *)

\* the dictionary list_files appends for the entry e (the MIME type and the
\* two timestamps are left out: nothing below reads them)
FileRecord(f, root, e) ==
  LET stat          == Node(f, Resolve(f, e))
      relative_path == SubSeq(e, Len(root) + 1, Len(e))
      parent        == RelStr(Front(relative_path))
      subdirectory  == IF parent # Dot THEN ReplaceBackslash(parent) ELSE <<>>
  IN [name |-> Last(e), size_bytes |-> stat.size, subdirectory |-> subdirectory]

NoResponse == [status |-> 0, detail |-> "", path |-> <<>>, filename |-> <<>>, files |-> <<>>]

HttpError(code, msg) == [NoResponse EXCEPT !.status = code, !.detail = msg]

FileResponse(p) == [NoResponse EXCEPT !.status = 200, !.path = p, !.filename = Last(p)]

ListResponse(fi) == [NoResponse EXCEPT !.status = 200, !.files = fi]

\* a handler that looks for the file before it checks the containment
DownloadOutcomeExistsFirst(f, root, s, raises) ==
  LET requested_path == Resolve(f, JoinPath(root, s))
  IN IF raises /\ NameTooLong(requested_path)
     THEN HttpError(500, "File name too long")
     ELSE IF ~Exists(f, requested_path) \/ ~IsFile(f, requested_path)
     THEN HttpError(404, "Arquivo não encontrado")
     ELSE IF ~StartsWith(PathStr(requested_path), PathStr(root))
     THEN HttpError(400, "Caminho inválido")
     ELSE FileResponse(requested_path)

\* the body of download_file for the request path s; raises says whether
\* the interpreter's Path.exists() raises OSError for a name longer than
\* NAME_MAX (CPython up to 3.12) or answers False
DownloadOutcome(f, root, s, raises) ==
  LET requested_path == Resolve(f, JoinPath(root, s))
  IN IF ~StartsWith(PathStr(requested_path), PathStr(root))
     THEN HttpError(400, "Caminho inválido")
     ELSE IF raises /\ NameTooLong(requested_path)
     THEN HttpError(500, "File name too long")
     ELSE IF ~Exists(f, requested_path) \/ ~IsFile(f, requested_path)
     THEN HttpError(404, "Arquivo não encontrado")
     ELSE FileResponse(requested_path)

\* a files_info shared by all requests (a module-level list)
FilesInfoAppendShared(fi, r, rec) == [q \in DOMAIN fi |-> Append(fi[q], rec)]

\* files_info.append(...) of the request r
FilesInfoAppend(fi, r, rec) == [fi EXCEPT ![r] = Append(@, rec)]

(* ------------------------------ startup ------------------------------- *)

Cwd == PData

DefaultDir == <<".", "/">> \o NArquivos

\* the values of the environment variable TARGET_DIRECTORY
EnvValues ==
  { [set |-> FALSE, value |-> <<>>],
    [set |-> TRUE,  value |-> PathStr(PFoo)] }

Prefixes(p) == { SubSeq(p, 1, n) : n \in 1..Len(p) }

\* mkdir(parents=True, exist_ok=True) succeeds when every component is a
\* directory or missing
MkdirOk(f, p) == \A q \in Prefixes(p) : Kind(f, q) \in {"absent", "dir"}

Mkdir(f, p) ==
  [q \in Universe |-> IF q \in Prefixes(p) /\ f[q].kind = "absent" THEN DirNode ELSE f[q]]

\* the strings requested from the download endpoint
FilePaths ==
  { NATxt,
    JoinSlash(<<NSub, NBTxt>>),
    JoinSlash(<<NSub, NDir, NNTxt>>),
    JoinSlash(<<NBack, NCTxt>>),
    JoinSlash(<<NA, NB, NCTxt>>),
    NLink,
    NFifo,
    NSub,
    NNope,
    <<>>,
    JoinSlash(<<NDlink, NBTxt>>),
    JoinSlash(<<NSub, DotDot, NATxt>>),
    JoinSlash(<<DotDot, NFoobar, NSecret>>),
    JoinSlash(<<DotDot, NOther, NX>>),
    JoinSlash(<<DotDot, NOther, NNope>>),
    PathStr(PX),
    LongName }

(* ------------------------------- state -------------------------------- *)

VARIABLES
  fs,                \* the filesystem: path -> node
  TARGET_DIRECTORY,  \* the environment variable read at startup
  existsRaises,      \* the interpreter: Path.exists() raises on ENAMETOOLONG
  main_pc,           \* "init", "serving" or "crashed"
  target_directory,  \* the module-level root path
  envCount,          \* changes made by the outside party so far
  pc,                \* per request: "idle", "iter", "stat", "done"
  kind,              \* per request: "none", "list", "download"
  file_path,         \* per request: the path parameter of download_file
  root_is_dir,       \* per request: rglob's is_dir test of the root
  walk_dirs,         \* per request: directories rglob has still to scan
  walk_entries,      \* per request: scanned entries not yet yielded
  files_info,        \* per request: the list being built
  response           \* per request: the HTTP response

vars == << fs, TARGET_DIRECTORY, existsRaises, main_pc, target_directory, envCount,
           pc, kind, file_path, root_is_dir, walk_dirs, walk_entries, files_info,
           response >>

reqVars == << pc, kind, file_path, root_is_dir, walk_dirs, walk_entries, files_info,
              response >>

Init ==
  /\ fs \in { MkFs(c) : c \in FsConfigs }
  /\ TARGET_DIRECTORY \in EnvValues
  /\ existsRaises \in BOOLEAN
  /\ main_pc = "init"
  /\ target_directory = <<>>
  /\ envCount = 0
  /\ pc = [r \in Requests |-> "idle"]
  /\ kind = [r \in Requests |-> "none"]
  /\ file_path = [r \in Requests |-> <<>>]
  /\ root_is_dir = [r \in Requests |-> FALSE]
  /\ walk_dirs = [r \in Requests |-> <<>>]
  /\ walk_entries = [r \in Requests |-> <<>>]
  /\ files_info = [r \in Requests |-> <<>>]
  /\ response = [r \in Requests |-> NoResponse]

\* module import: target_directory = get_target_directory()
get_target_directory ==
  /\ main_pc = "init"
  /\ LET dir_path == IF TARGET_DIRECTORY.set THEN TARGET_DIRECTORY.value ELSE DefaultDir
         target   == Resolve(fs, JoinPath(Cwd, dir_path))
     IN IF MkdirOk(fs, target)
        THEN /\ fs' = Mkdir(fs, target)
             /\ target_directory' = target
             /\ main_pc' = "serving"
        ELSE /\ main_pc' = "crashed"
             /\ UNCHANGED << fs, target_directory >>
  /\ UNCHANGED << TARGET_DIRECTORY, existsRaises, envCount >>
  /\ UNCHANGED reqVars

Raise500(r, msg) ==
  /\ response' = [response EXCEPT ![r] = HttpError(500, msg)]
  /\ pc' = [pc EXCEPT ![r] = "done"]

\* GET /files arrives: files_info = [] and rglob('*') is entered, which
\* yields nothing at all when the root is not a directory
list_files_begin(r) ==
  /\ main_pc = "serving"
  /\ pc[r] = "idle"
  /\ kind' = [kind EXCEPT ![r] = "list"]
  /\ root_is_dir' = [root_is_dir EXCEPT ![r] = IsDir(fs, target_directory)]
  /\ walk_dirs' = [walk_dirs EXCEPT ![r] =
                     IF IsDir(fs, target_directory) THEN <<target_directory>> ELSE <<>>]
  /\ walk_entries' = [walk_entries EXCEPT ![r] = <<>>]
  /\ files_info' = [files_info EXCEPT ![r] = <<>>]
  /\ pc' = [pc EXCEPT ![r] = "iter"]
  /\ UNCHANGED << fs, TARGET_DIRECTORY, existsRaises, main_pc, target_directory,
                  envCount, file_path, response >>

\* the generator scans the next directory; a directory that is gone by then
\* makes the scan raise FileNotFoundError, which the handler turns into 500
list_files_walk(r) ==
  /\ pc[r] = "iter"
  /\ walk_entries[r] = <<>>
  /\ walk_dirs[r] # <<>>
  /\ LET d == Head(walk_dirs[r])
     IN IF Kind(fs, d) # "dir"
        THEN /\ Raise500(r, "No such file or directory")
             /\ UNCHANGED << walk_dirs, walk_entries >>
        ELSE /\ walk_entries' = [walk_entries EXCEPT ![r] = Children(fs, d)]
             /\ walk_dirs' = [walk_dirs EXCEPT ![r] =
                                SubdirsToVisit(fs, d) \o Tail(walk_dirs[r])]
             /\ UNCHANGED << pc, response >>
  /\ UNCHANGED << fs, TARGET_DIRECTORY, existsRaises, main_pc, target_directory,
                  envCount, kind, file_path, root_is_dir, files_info >>

\* for file_path in rglob: if file_path.is_file()
list_files_is_file(r) ==
  /\ pc[r] = "iter"
  /\ walk_entries[r] # <<>>
  /\ IF IsFile(fs, Head(walk_entries[r]))
     THEN /\ pc' = [pc EXCEPT ![r] = "stat"]
          /\ UNCHANGED walk_entries
     ELSE /\ walk_entries' = [walk_entries EXCEPT ![r] = Tail(@)]
          /\ UNCHANGED pc
  /\ UNCHANGED << fs, TARGET_DIRECTORY, existsRaises, main_pc, target_directory,
                  envCount, kind, file_path, root_is_dir, walk_dirs, files_info,
                  response >>

\* stat = file_path.stat() ... files_info.append({...}); stat() raises
\* FileNotFoundError when the entry is gone, and the handler answers 500
list_files_stat(r) ==
  /\ pc[r] = "stat"
  /\ LET e == Head(walk_entries[r])
     IN IF ~Exists(fs, e)
        THEN /\ Raise500(r, "No such file or directory")
             /\ UNCHANGED << walk_entries, files_info >>
        ELSE /\ files_info' = FilesInfoAppend(files_info, r, FileRecord(fs, target_directory, e))
             /\ walk_entries' = [walk_entries EXCEPT ![r] = Tail(@)]
             /\ pc' = [pc EXCEPT ![r] = "iter"]
             /\ UNCHANGED response
  /\ UNCHANGED << fs, TARGET_DIRECTORY, existsRaises, main_pc, target_directory,
                  envCount, kind, file_path, root_is_dir, walk_dirs >>

\* return {"files": files_info}
list_files_return(r) ==
  /\ pc[r] = "iter"
  /\ walk_entries[r] = <<>>
  /\ walk_dirs[r] = <<>>
  /\ response' = [response EXCEPT ![r] = ListResponse(files_info[r])]
  /\ pc' = [pc EXCEPT ![r] = "done"]
  /\ UNCHANGED << fs, TARGET_DIRECTORY, existsRaises, main_pc, target_directory,
                  envCount, kind, file_path, root_is_dir, walk_dirs, walk_entries,
                  files_info >>

\* a faulty handler that removes what it serves
download_file_unlinks(r) ==
  /\ main_pc = "serving"
  /\ pc[r] = "idle"
  /\ \E s \in FilePaths :
       LET out == DownloadOutcome(fs, target_directory, s, existsRaises)
       IN /\ file_path' = [file_path EXCEPT ![r] = s]
          /\ response' = [response EXCEPT ![r] = out]
          /\ fs' = IF out.status = 200 /\ out.path \in Universe
                   THEN [fs EXCEPT ![out.path] = Absent] ELSE fs
  /\ kind' = [kind EXCEPT ![r] = "download"]
  /\ pc' = [pc EXCEPT ![r] = "done"]
  /\ UNCHANGED << TARGET_DIRECTORY, existsRaises, main_pc, target_directory,
                  envCount, root_is_dir, walk_dirs, walk_entries, files_info >>

\* GET /files/{file_path:path}
download_file(r) ==
  /\ main_pc = "serving"
  /\ pc[r] = "idle"
  /\ \E s \in FilePaths :
       /\ file_path' = [file_path EXCEPT ![r] = s]
       /\ response' = [response EXCEPT ![r] =
                         DownloadOutcome(fs, target_directory, s, existsRaises)]
  /\ kind' = [kind EXCEPT ![r] = "download"]
  /\ pc' = [pc EXCEPT ![r] = "done"]
  /\ UNCHANGED << fs, TARGET_DIRECTORY, existsRaises, main_pc, target_directory,
                  envCount, root_is_dir, walk_dirs, walk_entries, files_info >>

(* ------------------- the outside party (other processes) -------------- *)

\* somebody unlinks a file, a symbolic link or a special file below the root
env_unlink ==
  /\ main_pc = "serving"
  /\ envCount < MaxEnv
  /\ \E p \in Universe :
       /\ SegInside(p, target_directory)
       /\ fs[p].kind \in {"file", "symlink", "special"}
       /\ fs' = [fs EXCEPT ![p] = Absent]
  /\ envCount' = envCount + 1
  /\ UNCHANGED << TARGET_DIRECTORY, existsRaises, main_pc, target_directory >>
  /\ UNCHANGED reqVars

\* somebody removes the root directory with all it holds
env_remove_root ==
  /\ main_pc = "serving"
  /\ envCount < MaxEnv
  /\ fs[target_directory].kind = "dir"
  /\ fs' = [p \in Universe |-> IF SegInside(p, target_directory) THEN Absent ELSE fs[p]]
  /\ envCount' = envCount + 1
  /\ UNCHANGED << TARGET_DIRECTORY, existsRaises, main_pc, target_directory >>
  /\ UNCHANGED reqVars

(* --------------------------- specifications --------------------------- *)

Handlers ==
  \E r \in Requests :
    \/ list_files_begin(r)
    \/ list_files_walk(r)
    \/ list_files_is_file(r)
    \/ list_files_stat(r)
    \/ list_files_return(r)
    \/ download_file(r)

\* the server alone: nobody else touches the filesystem
NextQuiet == get_target_directory \/ Handlers

\* the server and the outside party
Next == get_target_directory \/ Handlers \/ env_unlink \/ env_remove_root

Spec == Init /\ [][Next]_vars

SpecQuiet == Init /\ [][NextQuiet]_vars


(* ------------------------------ claims -------------------------------- *)

\* the path download_file resolves for the request r
RequestedPath(r) == Resolve(fs, JoinPath(target_directory, file_path[r]))

DoneList(r) == kind[r] = "list" /\ pc[r] = "done"

DoneDownload(r) == kind[r] = "download" /\ pc[r] = "done"

Range(q) == { q[i] : i \in 1..Len(q) }

\* the parent of p relative to the root, written with forward slashes
SubdirectoryOf(p) ==
  LET rel == SubSeq(p, Len(target_directory) + 1, Len(p) - 1)
  IN IF rel = <<>> THEN <<>> ELSE ReplaceBackslash(JoinSlash(rel))

\* the string the round trip requests for a record
RoundTripPath(rec) ==
  IF rec.subdirectory = <<>> THEN rec.name
  ELSE rec.subdirectory \o <<Slash>> \o rec.name

\* the records a list request returns when it runs alone
AloneFiles ==
  IF ~IsDir(fs, target_directory) THEN {}
  ELSE { FileRecord(fs, target_directory, p) :
           p \in { q \in Universe : /\ SegInside(q, target_directory)
                                    /\ q # target_directory
                                    /\ IsFile(fs, q) } }

\* C1: a download whose resolved path is neither the root nor below it,
\* compared segment by segment, is answered 400 "Caminho inválido"; stated
\* as claimed, the code violates it for /data/foobar/s.txt under /data/foo
C1_EscapeIsRejected ==
  \A r \in Requests :
    (DoneDownload(r) /\ ~SegInside(RequestedPath(r), target_directory))
      => (response[r].status = 400 /\ response[r].detail = "Caminho inválido")

\* C2: on an unchanged filesystem every record of a listing can be
\* downloaded under subdirectory + "/" + name with status 200 and the same
\* size; stated as claimed, the code violates it for a symbolic link to a
\* file outside the root
C2_RoundTrip ==
  \A r \in Requests :
    (DoneList(r) /\ response[r].status = 200) =>
      \A i \in 1..Len(response[r].files) :
        LET rec == response[r].files[i]
            out == DownloadOutcome(fs, target_directory, RoundTripPath(rec), existsRaises)
        IN out.status = 200 /\ Node(fs, out.path).size = rec.size_bytes

\* C3: a download whose resolved path is inside the root and is not a
\* regular file (nothing there, a directory, ...) is answered 404 "Arquivo
\* não encontrado"; stated as claimed, the code violates it for a name
\* longer than NAME_MAX, where exists() raises and the answer is 500
C3_InsideNotAFileIs404 ==
  \A r \in Requests :
    (DoneDownload(r) /\ SegInside(RequestedPath(r), target_directory)
                     /\ Kind(fs, RequestedPath(r)) # "file")
      => (response[r].status = 404 /\ response[r].detail = "Arquivo não encontrado")

\* C4: when files disappear during a listing and the root directory stays
\* in place, the listing still succeeds with status 200; stated as claimed,
\* the code violates it when the file goes between is_file() and stat()
C4_VanishedEntryIsSkipped ==
  \A r \in Requests :
    (DoneList(r) /\ root_is_dir[r] /\ Kind(fs, target_directory) = "dir")
      => response[r].status = 200

C6_OnlyPlainFiles ==
  \A r \in Requests :
    (DoneList(r) /\ response[r].status = 200) =>
      \A i \in 1..Len(response[r].files) :
        \E p \in Universe :
          /\ SegInside(p, target_directory)
          /\ Kind(fs, p) = "file"
          /\ response[r].files[i].name = Last(p)
          /\ response[r].files[i].subdirectory = SubdirectoryOf(p)

\* C7: a list request handled while the root is not a directory is
\* answered 500; stated as claimed, the code violates it: rglob yields
\* nothing and the answer is 200 with no file
C7_MissingRootIs500 ==
  \A r \in Requests :
    (DoneList(r) /\ ~root_is_dir[r]) => response[r].status = 500

\* C8: once the server is started no step of a request changes the
\* filesystem or the root path: every change after startup is one the
\* outside party makes
C8_RequestsWriteNothing ==
  [][main_pc = "serving" =>
       /\ target_directory' = target_directory
       /\ (fs' # fs => envCount' # envCount)]_vars

\* C8 witness: the root was created at startup (it is empty), requests
\* ended with 200, 400 and 404, and the root is still there and empty
C8_Witness ==
  /\ main_pc = "serving"
  /\ Kind(fs, target_directory) = "dir"
  /\ Children(fs, target_directory) = <<>>
  /\ envCount = 0
  /\ \E r \in Requests : DoneList(r) /\ response[r].status = 200
  /\ \E r \in Requests : DoneDownload(r) /\ response[r].status \in {400, 404}

\* C9: with no outside change, whatever the interleaving, a finished list
\* request holds exactly the records of a listing that runs alone, each
\* once, and a finished download holds the answer of a download that runs
\* alone
C9_RequestsIndependent ==
  \A r \in Requests :
    pc[r] = "done" =>
      IF kind[r] = "list"
      THEN /\ response[r].status = 200
           /\ Range(response[r].files) = AloneFiles
           /\ Len(response[r].files) = Cardinality(AloneFiles)
      ELSE response[r] =
             DownloadOutcome(fs, target_directory, file_path[r], existsRaises)

\* C9 witness: one listing has finished with records while another one is
\* in the middle of its walk with records of its own
C9_Witness ==
  \E r, q \in Requests :
    /\ r # q
    /\ DoneList(r) /\ response[r].files # <<>>
    /\ kind[q] = "list" /\ pc[q] = "stat" /\ files_info[q] # <<>>

\* C10: a download whose resolved path fails the containment check (the
\* root's string is no prefix of the path's string) is answered 400 whether
\* or not a file exists there, and 404 is given only to a path that passed
\* the containment check
C10_ContainmentBeforeExistence ==
  \A r \in Requests :
    DoneDownload(r) =>
      LET contained == StartsWith(PathStr(RequestedPath(r)), PathStr(target_directory))
      IN /\ (~contained => response[r].status = 400)
         /\ (response[r].status = 404 => contained)

\* C10 witness: one download was answered 400 for a path at which a file
\* exists, another one 400 for a path at which nothing exists
C10_Witness ==
  \E r, q \in Requests :
    /\ DoneDownload(r) /\ response[r].status = 400 /\ Kind(fs, RequestedPath(r)) = "file"
    /\ DoneDownload(q) /\ response[q].status = 400 /\ Kind(fs, RequestedPath(q)) = "absent"

====
